---------------------------- MODULE Spec2Model ----------------------------
(***************************************************************************)
(* Model of Helper_Plotting_Analysis.py (LibDegorasSLR, PredictorStarNovas *)
(* example): the track segmentation (plot_ascending_descending_segments),  *)
(* the culmination search (plot_track_culmination) and the projection of a *)
(* circular avoidance zone (gen_projected_circle, with                     *)
(* plot_full_coverage_circle).                                             *)
(*                                                                         *)
(* Angles are Python floats in the source.  Here they are fixed-point      *)
(* integers in units of 1/Unit degree.  Indices stored in results are the  *)
(* 0-based Python indices; TLA+ sequences are 1-based, so element i of a   *)
(* Python list l is l[i+1] here.                                           *)
(***************************************************************************)
EXTENDS Integers, Sequences, FiniteSets

VARIABLES
    pc,                  \* "ready" before the call, "done" after it
    op,                  \* the function that was called
    track_elevations,    \* argument of the two track functions
    x_deg, y_deg, r_deg, \* arguments of gen_projected_circle
    points,              \* argument of gen_projected_circle
    outcome,             \* "returned", or the exception that was raised
    ascending_segments,  \* (start, end) pairs plotted green
    descending_segments, \* (start, end) pairs plotted red
    plotted,             \* (start, end) index ranges drawn by plot_track_culmination
    full_coverage,       \* gen_projected_circle took the branch of line 57
    boundary             \* the points drawn by gen_projected_circle

vars == <<pc, op, track_elevations, x_deg, y_deg, r_deg, points, outcome,
          ascending_segments, descending_segments, plotted, full_coverage,
          boundary>>

(***************************************************************************)
(* Bounds of the explored inputs.                                          *)
(***************************************************************************)
MaxLen == 6       \* longest trajectory
MaxLevel == 3     \* elevations of a trajectory are 0, 10, .. 10*MaxLevel degrees
MaxPoints == 5    \* largest sample count

Unit == 1000      \* fixed-point resolution: 1 degree = Unit

Elevations == {10 * Unit * k : k \in 0..MaxLevel}

Trajectories == UNION {[1..n -> Elevations] : n \in 0..MaxLen}

\* Python's l[-1] / len helpers on 0-based lists
At(l, i) == l[i + 1]

(***************************************************************************)
(* plot_ascending_descending_segments                                      *)
(***************************************************************************)
\* line 14
elevation_diff(els) ==
    [i \in 1..(IF Len(els) = 0 THEN 0 ELSE Len(els) - 1) |-> els[i + 1] - els[i]]

\* SegmentStep with the length test of line 26 off by one (> 0 for > 1)
SegmentStepShortRuns(st, i, diff) ==
    IF At(diff, i) > 0
    THEN IF i = 0 \/ At(diff, i - 1) <= 0
         THEN [st EXCEPT !.segment_start = i]
         ELSE st
    ELSE IF At(diff, i) < 0
         THEN IF i = 0 \/ At(diff, i - 1) >= 0
              THEN [segment_start |-> i,
                    asc |-> IF i - st.segment_start > 0
                            THEN Append(st.asc, <<st.segment_start, i>>)
                            ELSE st.asc]
              ELSE st
         ELSE st

\* lines 21-28: one iteration of the loop; st = [segment_start, asc]
SegmentStep(st, i, diff) ==
    IF At(diff, i) > 0
    THEN IF i = 0 \/ At(diff, i - 1) <= 0
         THEN [st EXCEPT !.segment_start = i]
         ELSE st
    ELSE IF At(diff, i) < 0
         THEN IF i = 0 \/ At(diff, i - 1) >= 0
              THEN [segment_start |-> i,
                    asc |-> IF i - st.segment_start > 1
                            THEN Append(st.asc, <<st.segment_start, i>>)
                            ELSE st.asc]
              ELSE st
         ELSE st

\* lines 19-28: the loop over enumerate(elevation_diff), first n iterations
RECURSIVE SegmentLoop(_, _)
SegmentLoop(diff, n) ==
    IF n = 0
    THEN [segment_start |-> 0, asc |-> <<>>]
    ELSE SegmentStep(SegmentLoop(diff, n - 1), n - 1, diff)

\* lines 30-35: the run that is open when the sequence ends
SegmentTail(st, diff) ==
    LET n == Len(diff)
        last == diff[n]
    IN  IF last > 0
        THEN [asc |-> IF n - st.segment_start > 1
                      THEN Append(st.asc, <<st.segment_start, n>>)
                      ELSE st.asc,
              desc |-> <<>>]
        ELSE IF last < 0
             THEN [asc |-> st.asc,
                   desc |-> IF n - st.segment_start > 1
                            THEN <<<<st.segment_start, n>>>>
                            ELSE <<>>]
             ELSE [asc |-> st.asc, desc |-> <<>>]

\* lines 10-41: elevation_diff[-1] of an empty list raises IndexError at line 30
plot_ascending_descending_segments(els) ==
    LET diff == elevation_diff(els)
    IN  IF Len(diff) = 0
        THEN [outcome |-> "IndexError", asc |-> <<>>, desc |-> <<>>]
        ELSE LET r == SegmentTail(SegmentLoop(diff, Len(diff)), diff)
             IN  [outcome |-> "returned", asc |-> r.asc, desc |-> r.desc]

(***************************************************************************)
(* plot_track_culmination                                                  *)
(***************************************************************************)
RECURSIVE MaxOf(_)
MaxOf(S) ==
    LET a == CHOOSE v \in S : TRUE
    IN  IF S = {a} THEN a
        ELSE LET m == MaxOf(S \ {a}) IN IF a > m THEN a ELSE m

\* lines 84-85: els[np.argmax(els)]
max_el(els) == MaxOf({els[k] : k \in 1..Len(els)})

\* line 86: the 0-based indices whose value equals max_el, in increasing order
RECURSIVE max_idxs_upto(_, _)
max_idxs_upto(els, n) ==
    IF n = 0 THEN <<>>
    ELSE IF els[n] = max_el(els)
         THEN Append(max_idxs_upto(els, n - 1), n - 1)
         ELSE max_idxs_upto(els, n - 1)

max_idxs(els) == max_idxs_upto(els, Len(els))

InSeq(x, s) == \E k \in 1..Len(s) : s[k] = x

\* lines 93-94: what one iteration of the loop over max_idxs draws.
\* azs and els have the same length; azs[idx:idx+2] covers [idx, idx+2).
CulminationStep(drawn, idx, idxs, len) ==
    IF idx < len - 1 /\ InSeq(idx + 1, idxs)
    THEN Append(drawn, <<idx, idx + 2>>)
    ELSE drawn

\* lines 91-95
RECURSIVE CulminationLoop(_, _, _)
CulminationLoop(idxs, n, len) ==
    IF n = 0 THEN <<>>
    ELSE CulminationStep(CulminationLoop(idxs, n - 1, len), idxs[n], idxs, len)

\* lines 81-98: np.argmax of an empty sequence raises ValueError at line 84
plot_track_culmination(els) ==
    IF Len(els) = 0
    THEN [outcome |-> "ValueError", plotted |-> <<>>]
    ELSE LET idxs == max_idxs(els)
         IN  IF Len(idxs) > 1
             THEN [outcome |-> "returned",
                   plotted |-> CulminationLoop(idxs, Len(idxs), Len(els))]
             ELSE [outcome |-> "returned",
                   plotted |-> <<<<idxs[1], idxs[1] + 1>>>>]

(***************************************************************************)
(* gen_projected_circle and plot_full_coverage_circle                      *)
(***************************************************************************)
ZenithDeg == 90       \* line 57
HalfTurnDeg == 180    \* line 70
FullTurnDeg == 360    \* line 72

\* math.ceil on a fixed-point value, result again in fixed point
Ceil(v) == (-((-v) \div Unit)) * Unit

\* np.linspace(0, 2*np.pi, n): the angles as fractions <<i, q>> of a full
\* turn (angle = 2*pi*i/q).  Endpoint included; n = 1 gives [0], n = 0 gives [].
linspace(n) ==
    IF n = 1 THEN <<<<0, 1>>>>
    ELSE [k \in 1..n |-> <<k - 1, n - 1>>]

\* The sine of p/q degrees, 0 <= p/q <= 180, in fixed point (Bhaskara's
\* rational approximation: exact at 0, 30, 90, 150, 180 degrees, and never
\* above 1 in magnitude).
SinHalfTurn(p, q) ==
    LET t == p * (HalfTurnDeg * q - p)
    IN  (4 * t * Unit) \div (40500 * q * q - t)

\* The sine of p/q degrees, any p >= 0, in fixed point
SinDeg(p, q) ==
    LET m == p % (FullTurnDeg * q)
    IN  IF m <= HalfTurnDeg * q
        THEN SinHalfTurn(m, q)
        ELSE -SinHalfTurn(m - HalfTurnDeg * q, q)

\* np.sin of the angle a = <<i, q>>
Sin(a) == SinDeg(FullTurnDeg * a[1], a[2])

\* np.cos of the angle a = <<i, q>>: the sine of a + 90 degrees
Cos(a) == SinDeg(FullTurnDeg * a[1] + ZenithDeg * a[2], a[2])

\* product of two fixed-point values
Mul(a, b) == (a * b) \div Unit

\* np.degrees of the angle a = <<i, q>>, in fixed point
Degrees(a) == (FullTurnDeg * Unit * a[1]) \div a[2]

\* lines 44-48: the circle of constant radius 90 - radius_deg
plot_full_coverage_circle(radius_deg, n) ==
    LET edge_angle == linspace(n)
    IN  [k \in 1..Len(edge_angle) |->
            [az |-> Degrees(edge_angle[k]), el |-> ZenithDeg * Unit - radius_deg]]

\* Reflect that also wraps the azimuth of the points it does not reflect
ReflectAlwaysWraps(pt) ==
    IF pt.el > ZenithDeg * Unit
    THEN [az |-> (pt.az + HalfTurnDeg * Unit) % (FullTurnDeg * Unit),
          el |-> HalfTurnDeg * Unit - pt.el]
    ELSE [az |-> pt.az % (FullTurnDeg * Unit), el |-> pt.el]

\* lines 67-72: the adjustment of one point <<x, y>> beyond the zenith
Reflect(pt) ==
    IF pt.el > ZenithDeg * Unit
    THEN [az |-> (pt.az + HalfTurnDeg * Unit) % (FullTurnDeg * Unit),
          el |-> HalfTurnDeg * Unit - pt.el]
    ELSE pt

\* CirclePoint with line 63 offsetting the azimuths by y_deg instead of x_deg
CirclePointWrongOffset(a, x, y, r) ==
    [az |-> Mul(Cos(a), r) + y, el |-> Mul(Sin(a), r) + y]

\* lines 62-64: point of the circle at angle a
CirclePoint(a, x, y, r) ==
    [az |-> Mul(Cos(a), r) + x, el |-> Mul(Sin(a), r) + y]

\* line 57
ExceedsZenith(y, r) == Ceil(y) + r >= ZenithDeg * Unit

\* lines 51-78.  np.linspace raises ValueError for a negative sample count.
gen_projected_circle(x, y, r, n) ==
    IF n < 0
    THEN [outcome |-> "ValueError", full |-> FALSE, boundary |-> <<>>]
    ELSE IF ExceedsZenith(y, r)
         THEN [outcome |-> "returned", full |-> TRUE,
               boundary |-> plot_full_coverage_circle(r, n)]
         ELSE LET angle == linspace(n)
              IN  [outcome |-> "returned", full |-> FALSE,
                   boundary |-> [k \in 1..Len(angle) |->
                                    Reflect(CirclePoint(angle[k], x, y, r))]]

\* the explored arguments of gen_projected_circle
CenterAzimuths == {0, 180 * Unit, 359 * Unit}
CenterElevations == {0, 45 * Unit, 85 * Unit, 89 * Unit, 89 * Unit + 500, 90 * Unit}
Radii == {-5 * Unit, 0, 4 * Unit + 500, 5 * Unit, 10 * Unit, 100 * Unit}
SampleCounts == (-1)..MaxPoints

(***************************************************************************)
(* The calls                                                               *)
(***************************************************************************)
Init ==
    /\ pc = "ready"
    /\ op = "none"
    /\ track_elevations = <<>>
    /\ x_deg = 0 /\ y_deg = 0 /\ r_deg = 0 /\ points = 0
    /\ outcome = "none"
    /\ ascending_segments = <<>>
    /\ descending_segments = <<>>
    /\ plotted = <<>>
    /\ full_coverage = FALSE
    /\ boundary = <<>>

Segment ==
    /\ pc = "ready"
    /\ \E els \in Trajectories :
        LET r == plot_ascending_descending_segments(els)
        IN  /\ track_elevations' = els
            /\ outcome' = r.outcome
            /\ ascending_segments' = r.asc
            /\ descending_segments' = r.desc
    /\ pc' = "done"
    /\ op' = "segment"
    /\ UNCHANGED <<x_deg, y_deg, r_deg, points, plotted, full_coverage, boundary>>

Culminations ==
    /\ pc = "ready"
    /\ \E els \in Trajectories :
        LET r == plot_track_culmination(els)
        IN  /\ track_elevations' = els
            /\ outcome' = r.outcome
            /\ plotted' = r.plotted
    /\ pc' = "done"
    /\ op' = "culminations"
    /\ UNCHANGED <<x_deg, y_deg, r_deg, points, ascending_segments,
                   descending_segments, full_coverage, boundary>>

Project ==
    /\ pc = "ready"
    /\ \E x \in CenterAzimuths, y \in CenterElevations, r \in Radii, n \in SampleCounts :
        LET res == gen_projected_circle(x, y, r, n)
        IN  /\ x_deg' = x /\ y_deg' = y /\ r_deg' = r /\ points' = n
            /\ outcome' = res.outcome
            /\ full_coverage' = res.full
            /\ boundary' = res.boundary
    /\ pc' = "done"
    /\ op' = "project"
    /\ UNCHANGED <<track_elevations, ascending_segments, descending_segments, plotted>>

Next == Segment \/ Culminations \/ Project

Spec == Init /\ [][Next]_vars

(***************************************************************************)
(* Vocabulary of the properties                                            *)
(***************************************************************************)
SegmentDone == pc = "done" /\ op = "segment"
CulminationsDone == pc = "done" /\ op = "culminations"
ProjectDone == pc = "done" /\ op = "project"

\* the elements of a sequence
Range(s) == {s[k] : k \in 1..Len(s)}

\* the indices of the half-open range (start, end)
Indices(seg) == seg[1]..(seg[2] - 1)

\* the contract's domain of project: elevation in [0, 90], radius >= 0, n >= 3
ValidProjectCall ==
    /\ ProjectDone
    /\ y_deg >= 0 /\ y_deg <= ZenithDeg * Unit
    /\ r_deg >= 0
    /\ points >= 3

\* C1 (stated as written): every boundary point that project produces for a
\* valid call, in either branch, has 0 <= elevation <= 90 and
\* 0 <= azimuth < 360.
C1_BoundaryInRange ==
    ValidProjectCall =>
        \A k \in 1..Len(boundary) :
            /\ boundary[k].el >= 0 /\ boundary[k].el <= ZenithDeg * Unit
            /\ boundary[k].az >= 0 /\ boundary[k].az < FullTurnDeg * Unit

\* C2 (stated as written): the full-coverage branch is taken iff
\* ceil(elevation) + radius >= 90, and then every boundary point has the
\* elevation max(90 - radius, 0).
C2_FullCoverageClipped ==
    ValidProjectCall =>
        /\ full_coverage <=> (Ceil(y_deg) + r_deg >= ZenithDeg * Unit)
        /\ full_coverage =>
              \A k \in 1..Len(boundary) :
                  boundary[k].el = IF ZenithDeg * Unit - r_deg >= 0
                                   THEN ZenithDeg * Unit - r_deg
                                   ELSE 0

\* the indices attaining the maximum elevation of the trajectory
MaxIndexSet == {k - 1 : k \in {j \in 1..Len(track_elevations) :
                   \A l \in 1..Len(track_elevations) :
                       track_elevations[l] <= track_elevations[j]}}

\* the indices covered by the ranges that culminations reported
PlottedIndices == UNION {Indices(seg) : seg \in Range(plotted)}

\* C3 (stated as written): for a non-empty trajectory the reported ranges
\* cover every index of maximum elevation, and a single strict maximum is
\* reported as exactly one length-1 run at its index.
C3_CulminationCoversMaxima ==
    (CulminationsDone /\ Len(track_elevations) > 0) =>
        /\ MaxIndexSet \subseteq PlottedIndices
        /\ Cardinality(MaxIndexSet) = 1 =>
              \E i \in MaxIndexSet : plotted = <<<<i, i + 1>>>>

\* all segments that segment reported, of both kinds
AllSegments == ascending_segments \o descending_segments

C5_Example ==
    (SegmentDone /\ track_elevations = <<10 * Unit, 20 * Unit, 30 * Unit,
                                         30 * Unit, 20 * Unit, 10 * Unit>>) =>
        /\ ascending_segments = <<<<0, 3>>>>
        /\ descending_segments = <<<<3, 6>>>>

\* every boundary point equals the center, and there are `points` of them
BoundaryIsCenter ==
    /\ outcome = "returned"
    /\ Len(boundary) = points
    /\ \A k \in 1..Len(boundary) : boundary[k] = [az |-> x_deg, el |-> y_deg]

\* C6 (stated as written): for every center with elevation in [0, 90] and
\* n >= 3, project(center, 0, n) returns n copies of the center.
C6_ZeroRadiusOriginal ==
    (ValidProjectCall /\ r_deg = 0) => BoundaryIsCenter

\* C6 (amended): for every center with ceil(elevation) < 90 and n >= 3,
\* project(center, 0, n) returns n copies of the center; for
\* ceil(elevation) >= 90 the full-coverage branch is taken instead.
C6_ZeroRadius ==
    (ValidProjectCall /\ r_deg = 0) =>
        IF Ceil(y_deg) < ZenithDeg * Unit
        THEN ~full_coverage /\ BoundaryIsCenter
        ELSE full_coverage

\* C6 witness: a zero-radius disc just below the sentinel, away from azimuth 0
C6_Witness ==
    /\ ValidProjectCall /\ r_deg = 0
    /\ y_deg = 89 * Unit /\ x_deg = 180 * Unit
    /\ Len(boundary) = MaxPoints

\* the calls that violate an input precondition
InvalidCall ==
    \/ SegmentDone /\ Len(track_elevations) = 0
    \/ CulminationsDone /\ Len(track_elevations) = 0
    \/ ProjectDone /\ (r_deg < 0 \/ points < 3)

\* C7 (stated as written, any raised exception counted as the InvalidInput
\* outcome): a call that violates a precondition raises and produces nothing.
C7_InvalidInputRaises ==
    InvalidCall =>
        /\ outcome \in {"IndexError", "ValueError"}
        /\ boundary = <<>> /\ AllSegments = <<>> /\ plotted = <<>>

\* the diff between samples i and i+1 (Python index i of elevation_diff)
Diff(i) == track_elevations[i + 2] - track_elevations[i + 1]

\* the diffs between consecutive samples of the trajectory range (start, end)
InnerDiffs(seg) == seg[1]..(seg[2] - 2)

\* C8 (stated as written): inside a reported ascending segment every
\* elevation difference is > 0, inside a reported descending one every
\* difference is < 0.
C8_SegmentsMonotonic ==
    (SegmentDone /\ Len(track_elevations) >= 2) =>
        /\ \A seg \in Range(ascending_segments) :
              \A i \in InnerDiffs(seg) : Diff(i) > 0
        /\ \A seg \in Range(descending_segments) :
              \A i \in InnerDiffs(seg) : Diff(i) < 0

Sign(v) == IF v > 0 THEN 1 ELSE IF v < 0 THEN -1 ELSE 0

NumDiffs == Len(track_elevations) - 1

\* [a, b) is a maximal run of diffs of sign sg (1 or -1)
MaximalRun(a, b, sg) ==
    /\ a < b
    /\ \A i \in a..(b - 1) : Sign(Diff(i)) = sg
    /\ a = 0 \/ Sign(Diff(a - 1)) # sg
    /\ b = NumDiffs \/ Sign(Diff(b)) # sg

\* the run [a, b) is reported in segs: some segment starts at a and ends at
\* b (diff indices) or at b + 1 (sample indices)
Reported(a, b, segs) ==
    \E seg \in Range(segs) : seg[1] = a /\ seg[2] \in {b, b + 1}

\* C9 (stated as written): every maximal same-sign run of at least 2 diffs
\* is reported as a segment of the matching kind.
C9_LongRunsReported ==
    (SegmentDone /\ Len(track_elevations) >= 2) =>
        \A a \in 0..NumDiffs, b \in 0..NumDiffs :
            /\ (MaximalRun(a, b, 1) /\ b - a >= 2) =>
                  Reported(a, b, ascending_segments)
            /\ (MaximalRun(a, b, -1) /\ b - a >= 2) =>
                  Reported(a, b, descending_segments)

\* the maximal contiguous sub-runs [i, j) of the tied-maximum index set
MaxSubRuns ==
    {<<i, j>> \in (0..Len(track_elevations)) \X (0..Len(track_elevations)) :
        /\ i < j
        /\ (i..(j - 1)) \subseteq MaxIndexSet
        /\ (i - 1) \notin MaxIndexSet
        /\ j \notin MaxIndexSet}

\* C10 (stated as written): when the maximum is attained at more than one
\* index, exactly one segment is reported per maximal contiguous sub-run of
\* the tied-maximum index set, each sub-run once as [i, i+k).
C10_OneSegmentPerSubRun ==
    (CulminationsDone /\ Cardinality(MaxIndexSet) > 1) =>
        /\ Range(plotted) = MaxSubRuns
        /\ Len(plotted) = Cardinality(MaxSubRuns)

\* the point generated at sample k, before the zenith adjustment
Generated(k) == CirclePoint(linspace(points)[k], x_deg, y_deg, r_deg)

\* C11: when ceil(elevation) + radius < 90 and radius >= 0, the full-coverage
\* branch is not taken, no generated point has elevation > 90, and every
\* returned point is the generated one: elevation unreflected, azimuth
\* center.azimuth + radius*cos(theta_i), not normalised.
C11_NoReflectionBelowSentinel ==
    (ProjectDone /\ outcome = "returned" /\ r_deg >= 0
        /\ Ceil(y_deg) + r_deg < ZenithDeg * Unit) =>
        /\ ~full_coverage
        /\ Len(boundary) = Len(linspace(points))
        /\ \A k \in 1..Len(boundary) :
              /\ Generated(k).el <= ZenithDeg * Unit
              /\ boundary[k] = Generated(k)

\* C11 witness: a disc that ends half a degree below the zenith and one of
\* whose returned azimuths lies outside [0, 360)
C11_Witness ==
    /\ ProjectDone /\ ~full_coverage /\ points >= 3
    /\ r_deg > 0 /\ y_deg + r_deg = 89 * Unit + 500
    /\ \E k \in 1..Len(boundary) :
          boundary[k].az < 0 \/ boundary[k].az >= FullTurnDeg * Unit

=============================================================================
